---- MODULE Spec2Model ----
(***************************************************************************)
(* A model of the bessie battery backtest engine (bess_backtest) and of    *)
(* the strategies it drives.  Python floats are modelled as rationals      *)
(* <<numerator, denominator>> in lowest terms with a positive denominator. *)
(* Arithmetic is exact except in the power-pool normalisation, whose pool  *)
(* sums and quotients are rounded to Precision significant bits as a       *)
(* binary floating-point division rounds them.  Slot k of the source's     *)
(* 0-based 8-vectors is index k+1.                                         *)
(***************************************************************************)
EXTENDS Integers, Sequences, FiniteSets, TLC

\* ------------------------------------------------------------------------
\* Exact rational arithmetic (the model's stand-in for float arithmetic)
\* ------------------------------------------------------------------------
Abs(x) == IF x < 0 THEN -x ELSE x

RECURSIVE GCD(_, _)
GCD(a, b) == IF b = 0 THEN a ELSE GCD(b, a % b)

Rat(n, d) ==
    LET g == GCD(Abs(n), d) IN <<n \div g, d \div g>>

R0 == <<0, 1>>
R1 == <<1, 1>>

RNeg(x) == <<-x[1], x[2]>>

\* Every operator below binds its operands once (x \in {a}) before using them,
\* so that an operand is evaluated a single time however often it is read.
RAdd(a, b) ==
    CHOOSE r \in { LET g == GCD(x[2], y[2])
                       m == x[2] \div g
                   IN  Rat(x[1] * (y[2] \div g) + y[1] * m, m * y[2])
                   : x \in {a}, y \in {b} } : TRUE

RSub(a, b) == RAdd(a, RNeg(b))

RMul(a, b) ==
    CHOOSE r \in { LET g1 == GCD(Abs(x[1]), y[2])
                       g2 == GCD(Abs(y[1]), x[2])
                   IN  <<(x[1] \div g1) * (y[1] \div g2), (x[2] \div g2) * (y[2] \div g1)>>
                   : x \in {a}, y \in {b} } : TRUE

\* x / y for y > 0
RDiv(a, b) == CHOOSE r \in { RMul(a, <<y[2], y[1]>>) : y \in {b} } : TRUE

\* sign of a/b - c/d (b, d > 0), by continued-fraction expansion
RECURSIVE Cmp(_, _, _, _)
Cmp(a, b, c, d) ==
    LET q1 == a \div b
        q2 == c \div d
        r1 == a % b
        r2 == c % d
    IN  IF q1 # q2 THEN (IF q1 < q2 THEN -1 ELSE 1)
        ELSE IF r1 = 0 /\ r2 = 0 THEN 0
        ELSE IF r1 = 0 THEN -1
        ELSE IF r2 = 0 THEN 1
        ELSE Cmp(d, r2, b, r1)

RCmp(a, b) == CHOOSE r \in { Cmp(x[1], x[2], y[1], y[2]) : x \in {a}, y \in {b} } : TRUE

RLt(x, y) == RCmp(x, y) < 0
RGt(x, y) == RCmp(x, y) > 0
RLe(x, y) == RCmp(x, y) <= 0
RGe(x, y) == RCmp(x, y) >= 0

\* the sum of a sequence of rationals, left to right
RECURSIVE RSumFrom(_, _, _)
RSumFrom(s, k, acc) ==
    IF k > Len(s) THEN acc
    ELSE CHOOSE r \in { RSumFrom(s, k + 1, t) : t \in {RAdd(acc, s[k])} } : TRUE

RSum(a) == CHOOSE r \in { RSumFrom(s, 1, R0) : s \in {a} } : TRUE

\* ------------------------------------------------------------------------
\* Binary floating point with round-to-nearest-even
\* ------------------------------------------------------------------------
\* significant bits of a float in the model (a Python float has 53)
Precision == 6

RECURSIVE Pow2(_)
Pow2(k) == IF k = 0 THEN 1 ELSE 2 * Pow2(k - 1)

\* scale a/d by powers of two into [2^(Precision-1), 2^Precision):
\* <<a', d', e>> with a/d = (a'/d') * 2^e
RECURSIVE FlNorm(_, _, _)
FlNorm(a, d, e) ==
    IF a >= Pow2(Precision) * d
    THEN CHOOSE r \in { FlNorm(a, d2, e2) : d2 \in {2 * d}, e2 \in {e + 1} } : TRUE
    ELSE IF a < Pow2(Precision - 1) * d
    THEN CHOOSE r \in { FlNorm(a2, d, e2) : a2 \in {2 * a}, e2 \in {e - 1} } : TRUE
    ELSE <<a, d, e>>

\* the significand a/d rounded to an integer, ties to even
FlSig(a, d) ==
    CHOOSE r \in { IF 2 * rem < d THEN q
                   ELSE IF 2 * rem > d THEN q + 1
                   ELSE IF q % 2 = 0 THEN q ELSE q + 1
                   : q \in {a \div d}, rem \in {a % d} } : TRUE

\* sgn * sig * 2^e as a rational
FlPack(sgn, sig, e) ==
    IF e >= 0 THEN <<sgn * sig * Pow2(e), 1>> ELSE Rat(sgn * sig, Pow2(-e))

FlNearest(v) ==
    IF v[1] = 0 THEN R0
    ELSE CHOOSE r \in {
             CHOOSE r2 \in { FlPack(IF v[1] < 0 THEN -1 ELSE 1, sig, t[3])
                             : sig \in {FlSig(t[1], t[2])} } : TRUE
             : t \in {FlNorm(Abs(v[1]), v[2], 0)} } : TRUE

\* the float nearest to the rational x, ties to the even significand
Fl(x) == CHOOSE r \in { FlNearest(v) : v \in {x} } : TRUE

\* float addition and division
FAdd(a, b) == CHOOSE r \in { Fl(s) : s \in {RAdd(a, b)} } : TRUE
FDiv(a, b) == CHOOSE r \in { Fl(s) : s \in {RDiv(a, b)} } : TRUE

\* ------------------------------------------------------------------------
\* Module constants of the engine
\* ------------------------------------------------------------------------
\* Maximum response durations (hours) per action slot
DURATIONS ==
    << <<1, 12>>, <<1, 12>>, <<1, 600>>, <<1, 60>>, <<1, 12>>,
       <<1, 600>>, <<1, 60>>, <<1, 12>> >>

\* Call probability per slot, in percent
EVENT_PROBS == <<100, 100, 5, 5, 5, 5, 5, 5>>

\* +1: energy flows into the battery, -1: out of it
indicator == <<1, -1, -1, -1, -1, 1, 1, 1>>

\* data.dt, the dispatch interval in hours
dt == <<1, 12>>

Slots == 1..8
DCHG == {2, 3, 4, 5}    \* discharge, raise-6s, raise-60s, raise-5m
CHG == {1, 6, 7, 8}     \* charge, lower-6s, lower-60s, lower-5m
RAISE == {3, 4, 5}
LOWER == {6, 7, 8}

Zero8 == [k \in Slots |-> R0]

\* ------------------------------------------------------------------------
\* The steps of one dispatch interval, as pure functions
\* ------------------------------------------------------------------------
\* mutant: only the upper bound is enforced
Clip_UpperOnly(action) ==
    [k \in Slots |-> IF RGt(action[k], R1) THEN R1 ELSE action[k]]

\* numpy.clip(action, 0, 1), applied when some component is out of range
Clip(action) ==
    IF \E k \in Slots : RLt(action[k], R0) \/ RGt(action[k], R1)
    THEN [k \in Slots |->
            IF RLt(action[k], R0) THEN R0
            ELSE IF RGt(action[k], R1) THEN R1 ELSE action[k]]
    ELSE action

\* action[1] + action[2:5].sum()
discharge_side(action) ==
    FAdd(action[2], FAdd(FAdd(action[3], action[4]), action[5]))

\* action[0] + action[5:8].sum()
charge_side(action) ==
    FAdd(action[1], FAdd(FAdd(action[6], action[7]), action[8]))

\* the members of group G divided by the group's sum when it exceeds 1
ScaleGroup(action, side, G) ==
    IF RGt(side, R1)
    THEN [k \in Slots |-> IF k \in G THEN FDiv(action[k], side) ELSE action[k]]
    ELSE action

\* discharge + raise FCAS share one power pool
NormaliseDischargeSide(action) ==
    CHOOSE r \in {
        CHOOSE r2 \in { ScaleGroup(a, side, DCHG) : side \in {discharge_side(a)} } : TRUE
        : a \in {action} } : TRUE

\* charge + lower FCAS share one power pool
NormaliseChargeSide(action) ==
    CHOOSE r \in {
        CHOOSE r2 \in { ScaleGroup(a, side, CHG) : side \in {charge_side(a)} } : TRUE
        : a \in {action} } : TRUE

Normalise(action) == NormaliseChargeSide(NormaliseDischargeSide(action))

\* energy needed to sustain slot k's full response
response_energy(action, p_max, k) == RMul(RMul(action[k], p_max), DURATIONS[k])

\* zero the raise markets the state of charge cannot sustain
ZeroRaise(action, soc, p_max) ==
    [k \in Slots |->
        IF k \in RAISE /\ RGt(response_energy(action, p_max, k), soc)
        THEN R0 ELSE action[k]]

\* mutant: the lower markets are tested against the whole capacity
ZeroLower_AgainstCapacity(action, soc, cap, p_max) ==
    [k \in Slots |->
        IF k \in LOWER /\ RGt(response_energy(action, p_max, k), cap)
        THEN R0 ELSE action[k]]

\* zero the lower markets the headroom cannot sustain
ZeroLower(action, soc, cap, p_max) ==
    [k \in Slots |->
        IF k \in LOWER /\ RGt(response_energy(action, p_max, k), RSub(cap, soc))
        THEN R0 ELSE action[k]]

Headroom(action, soc, cap, p_max) ==
    ZeroLower(ZeroRaise(action, soc, p_max), soc, cap, p_max)

efficiencies(b) ==
    <<b.eta_chg, b.eta_dchg, b.eta_dchg, b.eta_dchg, b.eta_dchg,
      b.eta_chg, b.eta_chg, b.eta_chg>>

\* events = numpy.random.rand(8) <= EVENT_PROBS, u in percent
Events(u) == [k \in Slots |-> IF u[k] <= EVENT_PROBS[k] THEN 1 ELSE 0]

\* mutant: every commitment delivers, called or not
PActual_AlwaysCalled(action, b, ev) ==
    [k \in Slots |->
        RMul(RMul(RMul(RMul(action[k], b.p_max), <<indicator[k], 1>>),
                  efficiencies(b)[k]),
             DURATIONS[k])]

\* MWh absorbed (+) or delivered (-) per slot
PActual(action, b, ev) ==
    [k \in Slots |->
        RMul(RMul(RMul(RMul(action[k], b.p_max), <<indicator[k], 1>>),
                  efficiencies(b)[k]),
             RMul(<<ev[k], 1>>, DURATIONS[k]))]

Sum8(v) == RSum([k \in Slots |-> v[k]])

Throughput(action, ev) ==
    RDiv(Sum8([k \in Slots |-> RMul(RMul(action[k], <<ev[k], 1>>), DURATIONS[k])]), dt)

\* the SOC-bound guard of the interval
Infeasible(soc, cap, p) ==
    RGt(RAdd(soc, Sum8(p)), cap) \/ RLt(RAdd(soc, Sum8(p)), R0)

\* mutant: the sign of the degradation term is flipped
Degrade_Gain(cap, deg, thr) == RMul(cap, RAdd(R1, RMul(deg, thr)))

\* mutant: a fixed loss every interval, whatever the throughput
Degrade_EveryInterval(cap, deg, thr) == RMul(cap, RSub(R1, deg))

Degrade(cap, deg, thr) == RMul(cap, RSub(R1, RMul(deg, thr)))

\* mutant: the charge revenue loses its minus sign
Revenue_ChargeEarns(action, p, b, price) ==
    [k \in Slots |->
        IF k = 1 THEN RMul(p[1], <<price[1], 1>>)
        ELSE IF k = 2 THEN RMul(RNeg(p[2]), <<price[1], 1>>)
        ELSE RMul(RMul(RMul(action[k], b.p_max), dt), <<price[k - 1], 1>>)]

\* mutant: an FCAS market is paid only when it delivered energy
Revenue_PaidWhenCalled(action, p, b, price) ==
    [k \in Slots |->
        IF k = 1 THEN RMul(RNeg(p[1]), <<price[1], 1>>)
        ELSE IF k = 2 THEN RMul(RNeg(p[2]), <<price[1], 1>>)
        ELSE IF p[k] = R0 THEN R0
        ELSE RMul(RMul(RMul(action[k], b.p_max), dt), <<price[k - 1], 1>>)]

Revenue(action, p, b, price) ==
    [k \in Slots |->
        IF k = 1 THEN RMul(RNeg(p[1]), <<price[1], 1>>)
        ELSE IF k = 2 THEN RMul(RNeg(p[2]), <<price[1], 1>>)
        ELSE RMul(RMul(RMul(action[k], b.p_max), dt), <<price[k - 1], 1>>)]

\* ------------------------------------------------------------------------
\* Inputs: batteries, realised prices, what a strategy may return, and what
\* numpy.random.rand(8) may return
\* ------------------------------------------------------------------------
MaxIntervals == 2

BatterySpec(p, e, dg, ec, ed) ==
    [p_max |-> p, e_max |-> e, deg |-> dg, eta_chg |-> ec, eta_dchg |-> ed]

\* the dataclass defaults
DefaultBattery == BatterySpec(<<50, 1>>, <<50, 1>>, R0, <<9, 10>>, <<19, 20>>)

Batteries ==
    { DefaultBattery,
      BatterySpec(<<12, 1>>, R1, <<1, 5>>, <<9, 10>>, <<19, 20>>),
      BatterySpec(<<12, 1>>, <<2, 1>>, <<3, 5>>, R1, R1) }

\* one row of data.realised: [energy, R6, R60, R5, L6, L60, L5] in $/MWh
PriceRowA == <<20, 1, 2, 3, 1, 2, 3>>
PriceRowB == <<-10, 0, 4, 1, 5, 0, 2>>

PriceSeries(len) ==
    { [t \in 1..len |-> PriceRowA],
      [t \in 1..len |-> IF t % 2 = 1 THEN PriceRowB ELSE PriceRowA] }

\* an 8-vector written in halves of p_max
Halves(v) == [k \in Slots |-> Rat(v[k], 2)]

\* what strategy.action may return: in range, out of range, pools above 1,
\* charge and discharge together, FCAS beyond the state of charge or headroom
StrategyReturns ==
    { Halves(<<0, 0, 0, 0, 0, 0, 0, 0>>),
      Halves(<<2, 0, 0, 0, 0, 0, 0, 0>>),
      Halves(<<0, 2, 0, 0, 0, 0, 0, 0>>),
      Halves(<<1, 0, 0, 0, 0, 0, 0, 0>>),
      Halves(<<2, 2, 0, 0, 0, 0, 0, 0>>),
      Halves(<<3, -1, 0, 0, 0, 0, 0, 1>>),
      Halves(<<0, 2, 2, 0, 0, 0, 1, 0>>),
      Halves(<<0, 0, 1, 0, 1, 0, 0, 0>>),
      Halves(<<0, 0, 0, 0, 0, 0, 2, 0>>),
      Halves(<<0, 1, 0, 1, 0, 1, 0, 2>>),
      Halves(<<0, 1, 2, 2, 2, 0, 0, 0>>) }

\* The global generator behind numpy.random, as a cycle of states: state g
\* yields the next rand(8) vector (in percent of [0, 1)) and moves on.
DrawTable ==
    << <<50, 50, 50, 50, 50, 50, 50, 50>>,
       <<99, 0, 5, 5, 5, 5, 5, 5>>,
       <<0, 99, 3, 50, 6, 50, 50, 0>> >>

NpStates == 0..(Len(DrawTable) - 1)

Rand8(g) == DrawTable[g + 1]

NpAdvance(g) == (g + 1) % Len(DrawTable)

\* what numpy.random.rand(8) may return when the generator's state is unknown
RandDraws == {Rand8(g) : g \in NpStates}

\* ------------------------------------------------------------------------
\* bess_backtest
\* ------------------------------------------------------------------------
VARIABLES
    battery,            \* the BatterySpec of the run
    realised,           \* data.realised, one price row per interval
    n,                  \* number of intervals, realised.shape[0]
    pc,                 \* "loop" inside the for loop, "done" after the return
    i,                  \* number of intervals completed (the loop index)
    c_soc,              \* current state of charge (MWh)
    c_max,              \* current capacity (MWh)
    output_actions,
    output_c_soc,
    output_c_max,
    output_revenue,
    calls,              \* the arguments and result of each strategy.action call
    loc,                \* the loop body's locals in the latest interval
    np_state,           \* state of the global numpy.random generator
    seed,               \* the numpy.random.seed argument since the last run, else -1
    policy,             \* the vector a constant strategy returns
    runs,               \* the results of the runs completed in this process
    strategy,           \* the class of the convex strategy instance
    problem,            \* its _problem: whether built, and the parameter values set
    results,            \* the arguments and outcome of each action call on it
    dp,                 \* the arguments of the solve_battery_dp call in progress
    cache,              \* its memo table: the cells written so far (the rest hold PLACEHOLDER)
    stack,              \* the frames of solve_battery_dp and _foo, innermost last
    ret,                \* the value the latest _foo call returned
    touched,            \* the <<t, i>> pairs the memo table has been indexed with
    dp_action           \* the vector solve_battery_dp returned, <<>> before the return

engineVars ==
    <<battery, realised, n, pc, i, c_soc, c_max, output_actions,
      output_c_soc, output_c_max, output_revenue, calls, loc>>

runVars ==
    <<i, c_soc, c_max, output_actions, output_c_soc, output_c_max,
      output_revenue, calls, loc>>

rngVars == <<np_state, seed, policy, runs>>

convexVars == <<strategy, problem, results>>

dpVars == <<dp, cache, stack, ret, touched, dp_action>>

vars == <<engineVars, rngVars, convexVars, dpVars>>

NoLocals ==
    [clipped |-> Zero8, normalised |-> Zero8, action |-> Zero8,
     events |-> Events(<<0, 0, 0, 0, 0, 0, 0, 0>>), p_actual |-> Zero8,
     soc_before |-> R0, max_before |-> R0, rejected |-> FALSE]

\* the state bess_backtest sets up before its loop
RunStart ==
    /\ i = 0
    /\ c_soc = R0
    /\ c_max = battery.e_max
    /\ output_actions = <<>>
    /\ output_c_soc = <<>>
    /\ output_c_max = <<>>
    /\ output_revenue = <<>>
    /\ calls = <<>>
    /\ loc = NoLocals

RngIdle ==
    /\ np_state = 0
    /\ seed = -1
    /\ policy = Zero8
    /\ runs = <<>>

\* no convex strategy instance is in use
ConvexIdle ==
    /\ strategy = "none"
    /\ problem = [built |-> FALSE, params |-> <<>>]
    /\ results = <<>>

\* no _foo call has returned yet (_foo is never called with t = 0)
NoReturn == [t |-> 0, i |-> 0, value |-> R0, memo |-> FALSE]

\* no solve_battery_dp call is in progress
DpIdle ==
    /\ dp = <<>>
    /\ cache = <<>>
    /\ stack = <<>>
    /\ ret = NoReturn
    /\ touched = {}
    /\ dp_action = <<>>

Init ==
    /\ battery \in Batteries
    /\ n \in 1..MaxIntervals
    /\ realised \in PriceSeries(n)
    /\ pc = "loop"
    /\ RunStart
    /\ RngIdle
    /\ ConvexIdle
    /\ DpIdle

\* the realised row handed to the strategy: realised[i - 1], which Python
\* resolves to the last row when i = 0
LastPrice(idx) == IF idx = 0 THEN realised[n] ELSE realised[idx]

\* mutant: the rejected dispatch is still written to the action record
Reject_RecordsAction(action) ==
    /\ c_soc' = c_soc
    /\ c_max' = c_max
    /\ output_actions' = Append(output_actions, action)
    /\ output_c_soc' = Append(output_c_soc, c_soc)
    /\ output_c_max' = Append(output_c_max, c_max)
    /\ output_revenue' = Append(output_revenue, Zero8)

\* mutant: an infeasible dispatch raises, so the iteration never completes
Reject_Raises(action) ==
    /\ action # action
    /\ UNCHANGED runVars

\* the SOC-bound breach branch: nothing of the dispatch is applied
Reject(action) ==
    /\ c_soc' = c_soc
    /\ c_max' = c_max
    /\ output_actions' = Append(output_actions, Zero8)
    /\ output_c_soc' = Append(output_c_soc, c_soc)
    /\ output_c_max' = Append(output_c_max, c_max)
    /\ output_revenue' = Append(output_revenue, Zero8)

\* the accepted branch: SOC moves, capacity degrades, revenue accrues
Accept(action, ev, p) ==
    \E soc \in {RAdd(c_soc, Sum8(p))},
       cap \in {Degrade(c_max, battery.deg, Throughput(action, ev))} :
        /\ c_soc' = soc
        /\ c_max' = cap
        /\ output_actions' = Append(output_actions, action)
        /\ output_c_soc' = Append(output_c_soc, soc)
        /\ output_c_max' = Append(output_c_max, cap)
        /\ output_revenue' =
              Append(output_revenue, Revenue(action, p, battery, realised[i + 1]))

\* one iteration of the for loop, given the strategy's return value and the
\* random draw (each local is bound once, in the order the code computes it)
Interval(returned, u) ==
    \E clipped \in {Clip(returned)} :
    \E normalised \in {Normalise(clipped)} :
    \E action \in {Headroom(normalised, c_soc, c_max, battery.p_max)} :
    \E ev \in {Events(u)} :
    \E p \in {PActual(action, battery, ev)} :
    \E rejected \in {Infeasible(c_soc, c_max, p)} :
        /\ calls' = Append(calls,
                      [c_soc |-> c_soc, c_max |-> c_max,
                       last_price |-> LastPrice(i), action |-> returned])
        /\ loc' = [clipped |-> clipped, normalised |-> normalised,
                   action |-> action, events |-> ev, p_actual |-> p,
                   soc_before |-> c_soc, max_before |-> c_max,
                   rejected |-> rejected]
        /\ IF rejected THEN Reject(action) ELSE Accept(action, ev, p)
        /\ i' = i + 1

\* an iteration with any strategy and any draw
Step ==
    /\ pc = "loop"
    /\ i < n
    /\ \E returned \in StrategyReturns, u \in RandDraws : Interval(returned, u)
    /\ UNCHANGED <<battery, realised, n, pc, rngVars, convexVars, dpVars>>

Return ==
    /\ pc = "loop"
    /\ i = n
    /\ pc' = "done"
    /\ UNCHANGED <<battery, realised, n, runVars, rngVars, convexVars, dpVars>>

Next == Step \/ Return

Spec == Init /\ [][Next]_vars

\* ------------------------------------------------------------------------
\* Two runs of bess_backtest in one process, drawing from the global
\* generator, with a strategy that returns the same vector at every call
\* ------------------------------------------------------------------------
InitSeeded ==
    /\ battery = DefaultBattery
    /\ n \in 1..MaxIntervals
    /\ realised = [t \in 1..n |-> PriceRowA]
    /\ pc = "idle"
    /\ RunStart
    /\ np_state \in NpStates
    /\ seed = -1
    /\ policy \in StrategyReturns
    /\ runs = <<>>
    /\ ConvexIdle
    /\ DpIdle

\* numpy.random.seed(s)
NpSeed ==
    /\ pc = "idle"
    /\ Len(runs) < 2
    /\ \E s \in NpStates : np_state' = s /\ seed' = s
    /\ UNCHANGED <<engineVars, policy, runs, convexVars, dpVars>>

\* other code calls numpy.random.rand
OtherDraw ==
    /\ pc = "idle"
    /\ Len(runs) < 2
    /\ np_state' = NpAdvance(np_state)
    /\ UNCHANGED <<engineVars, seed, policy, runs, convexVars, dpVars>>

\* bess_backtest(data, battery, strategy) is called
StartRun ==
    /\ pc = "idle"
    /\ Len(runs) < 2
    /\ pc' = "loop"
    /\ i' = 0
    /\ c_soc' = R0
    /\ c_max' = battery.e_max
    /\ output_actions' = <<>>
    /\ output_c_soc' = <<>>
    /\ output_c_max' = <<>>
    /\ output_revenue' = <<>>
    /\ calls' = <<>>
    /\ loc' = NoLocals
    /\ UNCHANGED <<battery, realised, n, rngVars, convexVars, dpVars>>

\* an iteration whose events come from the global generator
SeededStep ==
    /\ pc = "loop"
    /\ i < n
    /\ Interval(policy, Rand8(np_state))
    /\ np_state' = NpAdvance(np_state)
    /\ UNCHANGED <<battery, realised, n, pc, seed, policy, runs, convexVars, dpVars>>

SeededReturn ==
    /\ pc = "loop"
    /\ i = n
    /\ pc' = "idle"
    /\ runs' = Append(runs,
                 [seed |-> seed, actions |-> output_actions, c_soc |-> output_c_soc,
                  c_max |-> output_c_max, revenue |-> output_revenue])
    /\ seed' = -1
    /\ UNCHANGED <<battery, realised, n, runVars, np_state, policy, convexVars, dpVars>>

NextSeeded == NpSeed \/ OtherDraw \/ StartRun \/ SeededStep \/ SeededReturn

SpecSeeded == InitSeeded /\ [][NextSeeded]_vars

\* ------------------------------------------------------------------------
\* The convex strategies: ClarabelOptimisedFCAS.action, ClarabelOptimised.action
\* ------------------------------------------------------------------------
MaxCalls == 2

\* the threshold below which ClarabelOptimised treats an allocation as zero
TOLERANCE == <<1, 10000>>

\* a forecast is a sequence of cells, each a price or NaN
Price(v) == [nan |-> FALSE, v |-> v]
NaN == [nan |-> TRUE, v |-> 0]

Forecasts == { <<Price(20), Price(300)>>, <<Price(20), NaN>> }

\* numpy.isnan(forecast).any()
HasNaN(forecast) == \E k \in DOMAIN forecast : forecast[k].nan

ConvexClasses == {"ClarabelOptimisedFCAS", "ClarabelOptimised"}

SolvedStatuses == {"optimal", "optimal_inaccurate"}
FailedStatuses == {"infeasible", "unbounded"}

\* the value of a variable the solver assigned nothing to (None)
NoValue == <<>>

\* first-interval allocations (MW) a solve may leave in the variables:
\* p[0, :] for ClarabelOptimisedFCAS, <<p_charge[0], p_discharge[0]>> for
\* ClarabelOptimised
Solutions(class) ==
    IF class = "ClarabelOptimisedFCAS"
    THEN { [k \in Slots |-> R0],
           [k \in Slots |-> IF k = 1 THEN <<101, 2>> ELSE R0],
           [k \in Slots |-> IF k \in {2, 5} THEN <<25, 1>> ELSE R0],
           [k \in Slots |-> IF k = 2 THEN <<30, 1>>
                            ELSE IF k = 3 THEN <<200001, 10000>> ELSE R0] }
    ELSE { <<R0, R0>>, <<<<50, 1>>, <<1, 20000>>>>, <<R0, <<25, 1>>>>,
           <<<<50, 1>>, <<50, 1>>>> }

\* what problem.solve(solver=CLARABEL) may leave behind when it returns
SolverOutcomes(class) ==
    {[status |-> st, value |-> v] : st \in SolvedStatuses, v \in Solutions(class)}
    \cup {[status |-> st, value |-> NoValue] : st \in FailedStatuses}

\* the arguments a caller may pass: (c_soc, c_max) and (eta_chg, eta_dchg)
CallStates == { <<R0, <<50, 1>>>>, <<<<25, 1>>, <<50, 1>>>> }
CallEfficiencies == { <<<<9, 10>>, <<19, 20>>>>, <<<<9, 10>>, <<9, 10>>>> }

Zero7 == [k \in 1..7 |-> R0]

\* the no-action value of each class: numpy.zeros(8), numpy.zeros(7), or 0
ZeroAction(class) ==
    IF class = "ClarabelOptimised" THEN R0
    ELSE IF class = "DPOptimised" THEN Zero7
    ELSE Zero8

CallRecord(forecast, soc, cap, ec, ed, status, outcome, error, value) ==
    [forecast |-> forecast, forecast_nan |-> HasNaN(forecast), c_soc |-> soc, c_max |-> cap,
     eta_chg |-> ec, eta_dchg |-> ed, status |-> status,
     outcome |-> outcome, error |-> error, value |-> value]

\* the parameter values written into the template before the solve
SetParams(forecast, soc, cap, p_max, ec, ed) ==
    [built |-> TRUE,
     params |-> <<[forecast |-> forecast, c_initial |-> soc, p_max |-> p_max,
                   c_max |-> cap, eta_chg |-> ec, eta_dchg |-> ed]>>]

\* numpy.clip(p_first / p_max, 0.0, 1.0)
FirstStepFractions(p_first, p_max) ==
    [k \in Slots |->
        LET x == RDiv(p_first[k], p_max)
        IN  IF RLt(x, R0) THEN R0 ELSE IF RGt(x, R1) THEN R1 ELSE x]

\* ClarabelOptimisedFCAS.action after the solve: <<outcome, error, value>>
FCASResult(sol, p_max) ==
    IF sol.status \notin SolvedStatuses
    THEN <<"returned", "none", Zero8>>
    ELSE <<"returned", "none", FirstStepFractions(sol.value, p_max)>>

\* ClarabelOptimised.action after the solve: <<outcome, error, value>>;
\* subscripting a variable value of None raises TypeError
ScalarResult(sol, p_max) ==
    IF sol.value = NoValue
    THEN <<"raised", "TypeError", NoValue>>
    ELSE LET p_charge == sol.value[1]
             p_discharge == sol.value[2]
         IN  IF RGe(p_charge, TOLERANCE) /\ RGe(p_discharge, TOLERANCE)
             THEN <<"returned", "none", R0>>
             ELSE IF RGe(p_charge, TOLERANCE)
             THEN <<"returned", "none", RDiv(p_charge, p_max)>>
             ELSE IF RGe(p_discharge, TOLERANCE)
             THEN <<"returned", "none", RNeg(RDiv(p_discharge, p_max))>>
             ELSE <<"returned", "none", R0>>

\* one call of action on the instance; sol is what the solve leaves behind if
\* the call gets that far
Action(forecast, soc, cap, p_max, ec, ed, sol) ==
    IF HasNaN(forecast)
    THEN /\ results' = Append(results,
               CallRecord(forecast, soc, cap, ec, ed, "not_run",
                          "returned", "none", ZeroAction(strategy)))
         /\ problem' = problem
    ELSE IF ~problem.built /\ ec = ed
    THEN /\ results' = Append(results,
               CallRecord(forecast, soc, cap, ec, ed, "not_run",
                          "raised", "ValueError", NoValue))
         /\ problem' = [built |-> TRUE, params |-> <<>>]
    ELSE \E r \in { IF strategy = "ClarabelOptimisedFCAS"
                    THEN FCASResult(sol, p_max) ELSE ScalarResult(sol, p_max) } :
         /\ results' = Append(results,
               CallRecord(forecast, soc, cap, ec, ed, sol.status, r[1], r[2], r[3]))
         /\ problem' = SetParams(forecast, soc, cap, p_max, ec, ed)

InitConvex ==
    /\ battery = DefaultBattery
    /\ n = 1
    /\ realised = [t \in 1..1 |-> PriceRowA]
    /\ pc = "idle"
    /\ RunStart
    /\ RngIdle
    /\ strategy \in ConvexClasses
    /\ problem = [built |-> FALSE, params |-> <<>>]
    /\ results = <<>>
    /\ DpIdle

\* a caller invokes action with some arguments
Call ==
    /\ Len(results) < MaxCalls
    /\ \E forecast \in Forecasts, st \in CallStates, eff \in CallEfficiencies,
          sol \in SolverOutcomes(strategy) :
          Action(forecast, st[1], st[2], battery.p_max, eff[1], eff[2], sol)
    /\ UNCHANGED <<engineVars, rngVars, dpVars, strategy>>

NextConvex == Call

SpecConvex == InitConvex /\ [][NextConvex]_vars

\* ------------------------------------------------------------------------
\* QuantilePicker.action
\* ------------------------------------------------------------------------
\* the constructor defaults
charge_quantile == <<1, 10>>
discharge_quantile == <<9, 10>>

\* the float held by a forecast cell that is not NaN
Value(cell) == <<cell.v, 1>>

NaNValue == [nan |-> TRUE, v |-> R0]

\* numpy.quantile(row, q), linear interpolation between order statistics;
\* NaN as soon as the row holds a NaN
quantile(row, q) ==
    IF HasNaN(row) THEN NaNValue
    ELSE LET s == SortSeq([k \in DOMAIN row |-> Value(row[k])],
                          LAMBDA a, b : RLt(a, b))
             h == RMul(q, <<Len(s) - 1, 1>>)
             lo == h[1] \div h[2]
         IN  [nan |-> FALSE,
              v |-> IF lo + 1 >= Len(s) THEN s[Len(s)]
                    ELSE RAdd(s[lo + 1],
                              RMul(RSub(h, <<lo, 1>>), RSub(s[lo + 2], s[lo + 1])))]

\* float comparisons: False whenever an operand is NaN
CellLt(cell, x) == ~cell.nan /\ ~x.nan /\ RLt(Value(cell), x.v)
CellGt(cell, x) == ~cell.nan /\ ~x.nan /\ RGt(Value(cell), x.v)

Unit8(slot) == [k \in Slots |-> IF k = slot THEN R1 ELSE R0]

\* forecast is the (7, steps) window: row 1 is the energy market
QuantilePickerAction(forecast, soc, cap) ==
    LET charge_threshold == quantile(forecast[1], charge_quantile)
        discharge_threshold == quantile(forecast[1], discharge_quantile)
    IN  IF CellLt(forecast[1][1], charge_threshold) /\ RLt(soc, cap) THEN Unit8(1)
        ELSE IF CellGt(forecast[1][1], discharge_threshold) /\ RGt(soc, R0) THEN Unit8(2)
        ELSE Zero8

\* ------------------------------------------------------------------------
\* DPOptimised.action and solve_battery_dp
\* ------------------------------------------------------------------------
\* grid points of the state-of-charge discretisation
n_soc == 100

\* the penalty coefficient, at its constructor default
gamma == R0

\* int(round(x)) for x >= 0: to the nearest integer, halves to the even one
Round(x) ==
    LET f == x[1] \div x[2]
        r == x[1] % x[2]
    IN  IF 2 * r < x[2] THEN f
        ELSE IF 2 * r > x[2] THEN f + 1
        ELSE IF f % 2 = 0 THEN f ELSE f + 1

soc_step(c_max_val) == RDiv(c_max_val, <<n_soc - 1, 1>>)

\* grid cells one full-power interval moves the state of charge by
di(eta, p_max_val, c_max_val) ==
    Round(RDiv(RMul(RMul(dt, eta), p_max_val), soc_step(c_max_val)))

i_init(c_init, c_max_val) ==
    LET r == Round(RDiv(c_init, soc_step(c_max_val)))
        lo == IF r > 0 THEN r ELSE 0
    IN  IF lo < n_soc - 1 THEN lo ELSE n_soc - 1

cost_chg(price, gamma_val, p_max_val) ==
    RMul(RMul(RAdd(price, gamma_val), p_max_val), dt)

cost_dchg(price, gamma_val, p_max_val) ==
    RMul(RMul(RAdd(RNeg(price), gamma_val), p_max_val), dt)

\* mutant: the value of the remaining horizon is ignored
foo_Myopic(t, idx, di_chg, di_dchg, forecast_arr, gamma_val, p_max_val) == R0

\* _foo: minimum cost from timestep t (0-based) onwards, starting at SoC index
\* idx; the memo cache does not change the value returned
RECURSIVE foo(_, _, _, _, _, _, _)
foo(t, idx, di_chg, di_dchg, forecast_arr, gamma_val, p_max_val) ==
    IF t = Len(forecast_arr) THEN R0
    ELSE
    CHOOSE best \in {
        LET afterChg ==
                IF idx + di_chg < n_soc
                THEN CHOOSE b \in { IF RLt(val, idle) THEN val ELSE idle
                        : val \in {RAdd(cost_chg(forecast_arr[t + 1], gamma_val, p_max_val),
                                        foo(t + 1, idx + di_chg, di_chg, di_dchg,
                                            forecast_arr, gamma_val, p_max_val))} } : TRUE
                ELSE idle
        IN  IF idx - di_dchg >= 0
            THEN CHOOSE b \in { IF RLt(val, c) THEN val ELSE c
                    : val \in {RAdd(cost_dchg(forecast_arr[t + 1], gamma_val, p_max_val),
                                    foo(t + 1, idx - di_dchg, di_chg, di_dchg,
                                        forecast_arr, gamma_val, p_max_val))},
                      c \in {afterChg} } : TRUE
            ELSE afterChg
        : idle \in {foo(t + 1, idx, di_chg, di_dchg, forecast_arr, gamma_val, p_max_val)}
    } : TRUE

\* the 7-vector returned: slot 1 holds +1 (charge), -1 (discharge) or 0
Action7(first) == [k \in 1..7 |-> IF k = 1 THEN <<first, 1>> ELSE R0]

solve_battery_dp(forecast_arr, c_init, c_max_val, p_max_val, eta_c, eta_d, gamma_val) ==
    LET di_chg == di(eta_c, p_max_val, c_max_val)
        di_dchg == di(eta_d, p_max_val, c_max_val)
        i0 == i_init(c_init, c_max_val)
        idle == foo(1, i0, di_chg, di_dchg, forecast_arr, gamma_val, p_max_val)
        chg == RAdd(cost_chg(forecast_arr[1], gamma_val, p_max_val),
                    foo(1, i0 + di_chg, di_chg, di_dchg, forecast_arr, gamma_val, p_max_val))
        charges == i0 + di_chg < n_soc /\ RLt(chg, idle)
        best == IF charges THEN chg ELSE idle
        dchg == RAdd(cost_dchg(forecast_arr[1], gamma_val, p_max_val),
                     foo(1, i0 - di_dchg, di_chg, di_dchg, forecast_arr, gamma_val, p_max_val))
        discharges == i0 - di_dchg >= 0 /\ RLt(dchg, best)
    IN  IF discharges THEN Action7(-1)
        ELSE IF charges THEN Action7(1)
        ELSE Action7(0)

\* forecast is the 1-dimensional energy price window
DPOptimisedAction(forecast, soc, cap, p_max, ec, ed) ==
    IF HasNaN(forecast) THEN Zero7
    ELSE solve_battery_dp([k \in DOMAIN forecast |-> Value(forecast[k])],
                          soc, cap, p_max, ec, ed, gamma)

\* ------------------------------------------------------------------------
\* The four strategies called directly, each instance up to MaxCalls times.
\* cvxpy and Clarabel are outside the repository: here a solve is a function
\* of the parameter values the template holds, and of nothing else.
\* ------------------------------------------------------------------------
StrategyClasses ==
    {"QuantilePicker", "DPOptimised", "ClarabelOptimisedFCAS", "ClarabelOptimised"}

\* data.forecast[i, :, :]: row 1 the energy market, rows 2..7 the FCAS markets
Window(energy, fcas) == [r \in 1..7 |-> IF r = 1 THEN energy ELSE fcas]

Windows ==
    { Window(<<Price(10), Price(1000)>>, <<Price(1), Price(1)>>),
      Window(<<Price(1000), Price(10)>>, <<Price(1), Price(1)>>),
      Window(<<Price(10), NaN>>, <<Price(1), Price(1)>>),
      Window(<<Price(10), Price(1000)>>, <<Price(1), NaN>>) }

\* the cells of a window in row-major order
Ravel(w) == w[1] \o w[2] \o w[3] \o w[4] \o w[5] \o w[6] \o w[7]

\* the forecast argument as each class reads it: the energy-only strategies
\* take the 1-dimensional energy window
ForecastArg(class, w) ==
    IF class \in {"DPOptimised", "ClarabelOptimised"} THEN w[1] ELSE Ravel(w)

\* (c_soc, c_max) and (eta_chg, eta_dchg) of a call
StrategyStates == { <<R0, <<50, 1>>>>, <<<<25, 1>>, <<50, 1>>>> }
StrategyEfficiencies == { <<<<9, 10>>, <<19, 20>>>>, <<R1, R1>> }

RMin(x, y) == IF RLt(x, y) THEN x ELSE y
RMax(x, y) == IF RGt(x, y) THEN x ELSE y

\* the solve, from the template's parameter values: infeasible exactly when
\* no first step brings the state of charge into [0, c_max]; otherwise the
\* largest first step the bounds allow, towards the better price
Solve(class, par) ==
    LET down == RMul(RMul(par.p_max, dt), par.eta_dchg)
        up == RMul(RMul(par.p_max, dt), par.eta_chg)
        p_charge == RMax(R0, RMin(par.p_max,
                        RDiv(RSub(par.c_max, par.c_initial), RMul(dt, par.eta_chg))))
        p_discharge == RMax(R0, RMin(par.p_max,
                        RDiv(par.c_initial, RMul(dt, par.eta_dchg))))
        rising == par.forecast[1].v < par.forecast[2].v
        pair == IF rising THEN <<p_charge, R0>> ELSE <<R0, p_discharge>>
    IN  IF RGt(RSub(par.c_initial, down), par.c_max) \/ RLt(RAdd(par.c_initial, up), R0)
        THEN [status |-> "infeasible", value |-> NoValue]
        ELSE [status |-> "optimal",
              value |-> IF class = "ClarabelOptimisedFCAS"
                        THEN [k \in Slots |-> IF k \in {1, 2} THEN pair[k] ELSE R0]
                        ELSE pair]

InitStrategies ==
    /\ battery = DefaultBattery
    /\ n = 1
    /\ realised = [t \in 1..1 |-> PriceRowA]
    /\ pc = "idle"
    /\ RunStart
    /\ RngIdle
    /\ strategy \in StrategyClasses
    /\ problem = [built |-> FALSE, params |-> <<>>]
    /\ results = <<>>
    /\ DpIdle

QuantilePickerCall ==
    /\ strategy = "QuantilePicker"
    /\ Len(results) < MaxCalls
    /\ \E w \in Windows, st \in StrategyStates, eff \in StrategyEfficiencies :
          results' = Append(results,
              CallRecord(Ravel(w), st[1], st[2], eff[1], eff[2], "not_run",
                         "returned", "none", QuantilePickerAction(w, st[1], st[2])))
    /\ UNCHANGED <<engineVars, rngVars, dpVars, strategy, problem>>

DPOptimisedCall ==
    /\ strategy = "DPOptimised"
    /\ Len(results) < MaxCalls
    /\ \E w \in Windows, st \in StrategyStates, eff \in StrategyEfficiencies :
          results' = Append(results,
              CallRecord(w[1], st[1], st[2], eff[1], eff[2], "not_run",
                         "returned", "none",
                         DPOptimisedAction(w[1], st[1], st[2], battery.p_max,
                                           eff[1], eff[2])))
    /\ UNCHANGED <<engineVars, rngVars, dpVars, strategy, problem>>

ConvexCall ==
    /\ strategy \in ConvexClasses
    /\ Len(results) < MaxCalls
    /\ \E w \in Windows, st \in StrategyStates, eff \in StrategyEfficiencies :
       \E forecast \in {ForecastArg(strategy, w)} :
          Action(forecast, st[1], st[2], battery.p_max, eff[1], eff[2],
                 Solve(strategy,
                       SetParams(forecast, st[1], st[2], battery.p_max,
                                 eff[1], eff[2]).params[1]))
    /\ UNCHANGED <<engineVars, rngVars, dpVars, strategy>>

NextStrategies == QuantilePickerCall \/ DPOptimisedCall \/ ConvexCall

SpecStrategies == InitStrategies /\ [][NextStrategies]_vars

\* ------------------------------------------------------------------------
\* _backtest_loop: the scalar loop of the JIT-compiled backtest. The action
\* is one signed fraction of p_max; the run's parameters are held in battery
\* (c_init as e_max) and the records in the output sequences.
\* ------------------------------------------------------------------------
\* what action_fn may return
ScalarActions ==
    { R0, R1, RNeg(R1), <<1, 2>>, <<-1, 100>>, <<3, 2>>, <<-2, 1>> }

\* realised, one energy price per interval
ScalarPriceSeries(len) ==
    { [t \in 1..len |-> 20],
      [t \in 1..len |-> IF t % 2 = 1 THEN -10 ELSE 20] }

\* the clamp of the action to [-1, 1]
ClampScalar(action) ==
    IF RLt(action, RNeg(R1)) THEN RNeg(R1)
    ELSE IF RGt(action, R1) THEN R1 ELSE action

\* the capacity after the branch taken: any non-zero action degrades it
ScalarCapacity(action, cap, deg) ==
    IF action = R0 THEN cap ELSE RMul(cap, RSub(R1, deg))

\* p_action: the energy dispatched, cut down to the room or charge at hand
ScalarDispatch(action, soc, cap, p_max) ==
    IF RGt(action, R0)
    THEN RMin(RMul(RMul(action, p_max), dt), RSub(cap, soc))
    ELSE IF action = R0 THEN R0
    ELSE RNeg(RMin(RMul(RMul(RNeg(action), p_max), dt), soc))

\* p_actual: the change of the state of charge
ScalarActual(action, p_action, b) ==
    IF RGt(action, R0) THEN RMul(p_action, b.eta_chg)
    ELSE IF action = R0 THEN R0
    ELSE RMul(p_action, b.eta_dchg)

InitNjit ==
    /\ battery \in Batteries
    /\ n \in 1..MaxIntervals
    /\ realised \in ScalarPriceSeries(n)
    /\ pc = "loop"
    /\ RunStart
    /\ RngIdle
    /\ ConvexIdle
    /\ DpIdle

\* one iteration of the loop, given what action_fn returned
NjitStep ==
    /\ pc = "loop"
    /\ i < n
    /\ \E returned \in ScalarActions :
       \E action \in {ClampScalar(returned)} :
       \E cap \in {ScalarCapacity(action, c_max, battery.deg)} :
       \E p_action \in {ScalarDispatch(action, c_soc, cap, battery.p_max)} :
       \E p_actual \in {ScalarActual(action, p_action, battery)} :
       \E soc \in {RAdd(c_soc, p_actual)} :
          /\ calls' = Append(calls,
                        [c_soc |-> c_soc, c_max |-> c_max,
                         last_price |-> LastPrice(i), action |-> returned])
          /\ loc' = [action |-> action, p_action |-> p_action, p_actual |-> p_actual,
                     soc_before |-> c_soc, max_before |-> c_max]
          /\ c_soc' = soc
          /\ c_max' = cap
          /\ output_actions' = Append(output_actions, p_action)
          /\ output_c_soc' = Append(output_c_soc, soc)
          /\ output_c_max' = Append(output_c_max, cap)
          /\ output_revenue' =
                Append(output_revenue, RMul(RNeg(p_action), <<realised[i + 1], 1>>))
          /\ i' = i + 1
    /\ UNCHANGED <<battery, realised, n, pc, rngVars, convexVars, dpVars>>

NjitReturn ==
    /\ pc = "loop"
    /\ i = n
    /\ pc' = "done"
    /\ UNCHANGED <<battery, realised, n, runVars, rngVars, convexVars, dpVars>>

NextNjit == NjitStep \/ NjitReturn

SpecNjit == InitNjit /\ [][NextNjit]_vars

\* ------------------------------------------------------------------------
\* solve_battery_dp and the memoised _foo, call by call: each frame holds the
\* position reached in its function, the memo table is filled as the calls
\* return, and a cell that was never written holds PLACEHOLDER.
\* ------------------------------------------------------------------------
MaxHorizon == 3

\* forecast_arr: the energy price window, at least one step long
DPForecasts ==
    { f \in { <<R0>>,
              <<<<10, 1>>, <<1000, 1>>>>,
              <<<<10, 1>>, <<1000, 1>>, <<10, 1>>>>,
              <<<<1000, 1>>, <<10, 1>>, <<1000, 1>>>>,
              <<<<10, 1>>, <<10, 1>>, <<-5, 1>>, <<1000, 1>>>>,
              <<<<30, 1>>, <<-20, 1>>, <<40, 1>>, <<40, 1>>, <<0, 1>>>> } :
        Len(f) <= MaxHorizon }

\* (c_init, c_max_val): empty, half full, full, and above the capacity
DPStates ==
    { <<R0, <<50, 1>>>>, <<<<25, 1>>, <<50, 1>>>>, <<<<50, 1>>, <<50, 1>>>>,
      <<<<60, 1>>, <<50, 1>>>> }

\* p_max_val: a full-power step of 7 or 8 grid cells, of 1 cell, of 89 or more
DPPowers == { <<50, 1>>, <<6, 1>>, <<600, 1>> }

DPEfficiencies == { <<<<9, 10>>, <<19, 20>>>>, <<R1, R1>> }

DPGammas == { R0, <<2, 1>> }

\* the frame of a call at its first line
Frame(fn, t, idx) ==
    [fn |-> fn, t |-> t, i |-> idx, pc |-> "start", best |-> R0, first |-> 0]

Top == stack[Len(stack)]

\* mutant: the memo table is indexed by the grid index alone
CacheKey_IndexOnly(t, idx) == <<1, idx>>

\* the cell of the memo table that cache[t, i] names
CacheKey(t, idx) == <<t, idx>>

\* cache[t, i] != PLACEHOLDER
Cached(t, idx) == CacheKey(t, idx) \in DOMAIN cache

\* mutant: the charge branch admits the index n_soc
ChargeInRange_Inclusive(j) == j <= n_soc

\* j < cache.shape[1], j < n_soc
ChargeInRange(j) == j < n_soc

\* j >= 0
DischargeInRange(j) == j >= 0

\* mutant: a tie is taken as an improvement
Cheaper_OrEqual(val, best) == RLe(val, best)

\* _val < _best
Cheaper(val, best) == RLt(val, best)

\* the caller moves to position pc and the callee's frame is entered
CallFoo(f, pc_next, idx) ==
    /\ stack' = Append([stack EXCEPT ![Len(stack)] = [f EXCEPT !.pc = pc_next]],
                       Frame("foo", f.t + 1, idx))
    /\ UNCHANGED <<dp, cache, ret, touched, dp_action>>

\* _foo returns v to its caller; memo tells whether v was read from the memo
\* table
ReturnFoo(f, v, memo) ==
    /\ stack' = SubSeq(stack, 1, Len(stack) - 1)
    /\ ret' = [t |-> f.t, i |-> f.i, value |-> v, memo |-> memo]

\* the end of the frame: _foo writes cache[t, i] and returns _best,
\* solve_battery_dp returns _action
Finish(f) ==
    IF f.fn = "foo"
    THEN /\ ReturnFoo(f, f.best, FALSE)
         /\ cache' = [k \in DOMAIN cache \cup {CacheKey(f.t, f.i)} |->
                         IF k = CacheKey(f.t, f.i) THEN f.best ELSE cache[k]]
         /\ touched' = touched \cup {<<f.t, f.i>>}
         /\ UNCHANGED <<dp, dp_action>>
    ELSE /\ stack' = <<>>
         /\ dp_action' = Action7(f.first)
         /\ UNCHANGED <<dp, cache, ret, touched>>

\* the discharge branch: taken when the index stays at or above 0
TryDischarge(f) ==
    IF DischargeInRange(f.i - dp.di_dchg)
    THEN CallFoo(f, "after_dchg", f.i - dp.di_dchg)
    ELSE Finish(f)

\* the charge branch: taken when the index stays below n_soc
TryCharge(f) ==
    IF ChargeInRange(f.i + dp.di_chg)
    THEN CallFoo(f, "after_chg", f.i + dp.di_chg)
    ELSE TryDischarge(f)

\* the frame after `if _val < _best` of the branch just evaluated: _foo
\* assigns _best, solve_battery_dp assigns _action[0] and, in its charge
\* branch only, _best
Compare(f, step_cost, sign) ==
    CHOOSE g \in { IF Cheaper(val, f.best)
                   THEN [f EXCEPT !.best = IF f.fn = "solve" /\ sign = -1
                                           THEN f.best ELSE val,
                                  !.first = IF f.fn = "solve" THEN sign ELSE 0]
                   ELSE f
                 : val \in {RAdd(step_cost, ret.value)} } : TRUE

\* the positions both functions share, after their first call has returned
Branches(f) ==
    IF f.pc = "after_idle"
    THEN TryCharge([f EXCEPT !.best = ret.value])
    ELSE IF f.pc = "after_chg"
    THEN TryDischarge(Compare(f, cost_chg(dp.forecast_arr[f.t + 1], dp.gamma_val,
                                           dp.p_max_val), 1))
    ELSE Finish(Compare(f, cost_dchg(dp.forecast_arr[f.t + 1], dp.gamma_val,
                                      dp.p_max_val), -1))

\* the locals solve_battery_dp computes before its first _foo call
DPCall(forecast_arr, c_init, c_max_val, p_max_val, eta_c, eta_d, gamma_val) ==
    [forecast_arr |-> forecast_arr, c_init |-> c_init, c_max_val |-> c_max_val,
     p_max_val |-> p_max_val, eta_c |-> eta_c, eta_d |-> eta_d,
     gamma_val |-> gamma_val,
     di_chg |-> di(eta_c, p_max_val, c_max_val),
     di_dchg |-> di(eta_d, p_max_val, c_max_val),
     i_init |-> i_init(c_init, c_max_val)]

InitDP ==
    /\ battery = DefaultBattery
    /\ n = 1
    /\ realised = [t \in 1..1 |-> PriceRowA]
    /\ pc = "idle"
    /\ RunStart
    /\ RngIdle
    /\ ConvexIdle
    /\ \E f \in DPForecasts, st \in DPStates, p \in DPPowers,
          eff \in DPEfficiencies, g \in DPGammas :
          dp = DPCall(f, st[1], st[2], p, eff[1], eff[2], g)
    /\ cache = <<>>
    /\ stack = <<Frame("solve", 0, dp.i_init)>>
    /\ ret = NoReturn
    /\ touched = {}
    /\ dp_action = <<>>

\* one step of solve_battery_dp, when its frame is the innermost
SolveStep ==
    /\ stack # <<>>
    /\ Top.fn = "solve"
    /\ IF Top.pc = "start"
       THEN CallFoo(Top, "after_idle", Top.i)
       ELSE Branches(Top)
    /\ UNCHANGED <<engineVars, rngVars, convexVars>>

\* one step of _foo, when its frame is the innermost
FooStep ==
    /\ stack # <<>>
    /\ Top.fn = "foo"
    /\ IF Top.pc = "start"
       THEN IF Top.t = Len(dp.forecast_arr)
            THEN /\ ReturnFoo(Top, R0, FALSE)
                 /\ UNCHANGED <<dp, cache, touched, dp_action>>
            ELSE IF Cached(Top.t, Top.i)
            THEN /\ ReturnFoo(Top, cache[CacheKey(Top.t, Top.i)], TRUE)
                 /\ touched' = touched \cup {<<Top.t, Top.i>>}
                 /\ UNCHANGED <<dp, cache, dp_action>>
            ELSE /\ stack' = Append([stack EXCEPT ![Len(stack)] =
                                        [Top EXCEPT !.pc = "after_idle"]],
                                    Frame("foo", Top.t + 1, Top.i))
                 /\ touched' = touched \cup {<<Top.t, Top.i>>}
                 /\ UNCHANGED <<dp, cache, ret, dp_action>>
       ELSE Branches(Top)
    /\ UNCHANGED <<engineVars, rngVars, convexVars>>

NextDP == SolveStep \/ FooStep

SpecDP == InitDP /\ [][NextDP]_vars

\* ------------------------------------------------------------------------
\* Properties of bess_backtest
\* ------------------------------------------------------------------------
Recorded == 1..Len(output_c_soc)

\* the sum of a pool as the engine computes it
PoolSum(v, G) == IF G = DCHG THEN discharge_side(v) ELSE charge_side(v)

Positive(x) == RGt(x, R0)

\* C1: in every recorded interval t the state of charge is within the
\* capacity recorded for that interval: 0 <= c_soc[t] <= c_max[t].
C1_SocWithinCapacity ==
    \A t \in Recorded :
        RGe(output_c_soc[t], R0) /\ RLe(output_c_soc[t], output_c_max[t])

\* C2: the recorded capacity never increases from one interval to the next,
\* and never exceeds the battery's e_max.
C2_CapacityNonIncreasing ==
    \A t \in Recorded :
        RLe(output_c_max[t], IF t = 1 THEN battery.e_max ELSE output_c_max[t - 1])

\* C2 witness: an accepted dispatch has strictly reduced the capacity.
C2_Witness ==
    /\ Len(output_c_max) >= 2
    /\ RLt(output_c_max[2], output_c_max[1])
    /\ RLt(output_c_max[1], battery.e_max)

\* C3: when the interval's summed energy deltas would take the state of
\* charge outside [0, c_max], the interval's 8 actions and 8 revenues are
\* recorded as zero and c_soc and c_max keep their prior values.
C3_AllOrNothing ==
    (i > 0 /\ LET soc == RAdd(loc.soc_before, Sum8(loc.p_actual))
              IN  RGt(soc, loc.max_before) \/ RLt(soc, R0))
    => /\ output_actions[i] = Zero8
       /\ output_revenue[i] = Zero8
       /\ output_c_soc[i] = loc.soc_before
       /\ output_c_max[i] = loc.max_before
       /\ c_soc = loc.soc_before
       /\ c_max = loc.max_before

\* C3 witness: a non-zero dispatch that breached the SOC bounds was rejected
\* from a state of charge above zero.
C3_Witness ==
    /\ i > 0
    /\ loc.action # Zero8
    /\ Positive(loc.soc_before)
    /\ RGt(RAdd(loc.soc_before, Sum8(loc.p_actual)), loc.max_before)
    /\ output_actions[i] = Zero8

\* C4: every recorded action has discharge-side and charge-side sums of at
\* most 1; a group whose clamped sum exceeds 1 is divided member by member by
\* that sum and sums to exactly 1 after the step, and a group whose clamped
\* sum is at most 1 is left as it was.
C4_PoolNormalisation ==
    /\ \A t \in Recorded :
          /\ RLe(discharge_side(output_actions[t]), R1)
          /\ RLe(charge_side(output_actions[t]), R1)
    /\ i > 0 =>
          \A G \in {DCHG, CHG} :
              LET side == PoolSum(loc.clipped, G)
              IN  IF RGt(side, R1)
                  THEN /\ \A k \in G : loc.normalised[k] = FDiv(loc.clipped[k], side)
                       /\ PoolSum(loc.normalised, G) = R1
                  ELSE \A k \in G : loc.normalised[k] = loc.clipped[k]

\* C5: in every recorded interval the charge fraction (slot 0) and the
\* discharge fraction (slot 1) are never both positive.
C5_MutualExclusion ==
    \A t \in Recorded :
        ~(Positive(output_actions[t][1]) /\ Positive(output_actions[t][2]))

\* C6: when the strategy has returned the zero vector at every interval, every
\* recorded c_soc is 0, every recorded c_max is e_max and every recorded
\* revenue component is zero.
C6_ZeroActionInvariance ==
    (\A t \in 1..Len(calls) : calls[t].action = Zero8)
    => \A t \in Recorded :
          /\ output_c_soc[t] = R0
          /\ output_c_max[t] = battery.e_max
          /\ output_revenue[t] = Zero8

\* C6 witness: a finished run of at least two intervals on a degrading
\* battery in which the strategy only ever returned the zero vector.
C6_Witness ==
    /\ pc = "done"
    /\ n >= 2
    /\ Positive(battery.deg)
    /\ \A t \in 1..n : calls[t].action = Zero8

C8_SeedReproducible ==
    \A a, b \in 1..Len(runs) :
        (runs[a].seed = runs[b].seed /\ runs[a].seed # -1) => runs[a] = runs[b]

\* C9: when a convex strategy instance is first called with equal charge
\* and discharge efficiencies, that first call raises the configuration error
\* (ValueError) instead of returning an action.
C9_ConfigErrorAtFirstUse ==
    (Len(results) >= 1 /\ results[1].eta_chg = results[1].eta_dchg)
    => (results[1].outcome = "raised" /\ results[1].error = "ValueError")

\* C10: every call whose solve finished with a status other than optimal or
\* optimal_inaccurate returned the zero action and raised nothing.
C10_SolverFailureRecovered ==
    \A t \in 1..Len(results) :
        results[t].status \in FailedStatuses
        => (results[t].outcome = "returned" /\ results[t].value = ZeroAction(strategy))

\* ------------------------------------------------------------------------
\* Further properties of bess_backtest
\* ------------------------------------------------------------------------
FCAS == RAISE \cup LOWER

\* C14: in every recorded interval whose realised energy price is positive,
\* the charge revenue (column 0) is <= 0 and the discharge revenue (column 1)
\* is >= 0.
C14_RevenueSign ==
    \A t \in Recorded :
        realised[t][1] > 0
        => /\ RLe(output_revenue[t][1], R0)
           /\ RGe(output_revenue[t][2], R0)

\* C14 witness: at a positive price, a charge has cost money and a later
\* discharge has earned money.
C14_Witness ==
    /\ Len(output_revenue) >= 2
    /\ realised[1][1] > 0
    /\ realised[2][1] > 0
    /\ RLt(output_revenue[1][1], R0)
    /\ Positive(output_revenue[2][2])

\* what the latest interval would have recorded had the draw been u, from the
\* same state and with the same action: whether rejected, and the revenue row
OutcomeUnder(u) ==
    CHOOSE r \in { LET rej == Infeasible(loc.soc_before, loc.max_before, p)
                   IN  [rejected |-> rej,
                        revenue |-> IF rej THEN Zero8
                                    ELSE Revenue(loc.action, p, battery, realised[i])]
                   : p \in {PActual(loc.action, battery, Events(u))} } : TRUE

\* committed MW x the market's realised price x dt
AvailabilityPayment(action, price, k) ==
    RMul(RMul(RMul(action[k], battery.p_max), dt), <<price[k - 1], 1>>)

\* C15 (as stated): every recorded FCAS revenue is committed MW x realised
\* price x dt, and the latest interval would have recorded the same FCAS
\* revenue under every other draw of the event indicators.
C15_FcasRevenueIndependentOfCall ==
    /\ \A t \in Recorded, k \in FCAS :
          output_revenue[t][k] = AvailabilityPayment(output_actions[t], realised[t], k)
    /\ i > 0 =>
          \A u \in RandDraws :
              \E alt \in {OutcomeUnder(u)} :
                  \A k \in FCAS : alt.revenue[k] = output_revenue[i][k]

\* C15 (amended): every recorded FCAS revenue is the recorded fraction x p_max
\* x realised price x dt whether or not the market was called, and two
\* executions of an interval that differ only in the event indicators record
\* the same FCAS revenue when both are accepted or both are rejected.
C15_FcasRevenueUnlessRejected ==
    /\ \A t \in Recorded, k \in FCAS :
          output_revenue[t][k] = AvailabilityPayment(output_actions[t], realised[t], k)
    /\ i > 0 =>
          \A u \in RandDraws :
              \E alt \in {OutcomeUnder(u)} :
                  alt.rejected = loc.rejected
                  => \A k \in FCAS : alt.revenue[k] = output_revenue[i][k]

\* C15 witness: an accepted interval was paid for an FCAS market that was
\* not called, and another draw would have called it and still been accepted.
C15_Witness ==
    /\ i > 0
    /\ ~loc.rejected
    /\ \E k \in FCAS :
          /\ Positive(output_revenue[i][k])
          /\ loc.events[k] = 0
          /\ \E u \in RandDraws : Events(u)[k] = 1 /\ ~OutcomeUnder(u).rejected

\* C16: the normalisation step leaves unchanged every vector whose two pool
\* sums are at most 1: the output of the interval's own normalisation, the
\* clamped vector when it is already within the pools, and every recorded
\* action.
C16_NormaliseIdempotent ==
    /\ i > 0 =>
          /\ Normalise(loc.normalised) = loc.normalised
          /\ (RLe(discharge_side(loc.clipped), R1) /\ RLe(charge_side(loc.clipped), R1))
             => Normalise(loc.clipped) = loc.clipped
    /\ \A t \in Recorded : Normalise(output_actions[t]) = output_actions[t]

\* C19: at every call of strategy.action the engine passes c_max > 0 and
\* 0 <= c_soc <= c_max.
C19_StrategyInputContract ==
    \A t \in 1..Len(calls) :
        /\ Positive(calls[t].c_max)
        /\ RGe(calls[t].c_soc, R0)
        /\ RLe(calls[t].c_soc, calls[t].c_max)

\* C20: every component of every recorded action lies in [0,1]; the vector
\* the pool sums are computed from is the returned vector with components
\* below 0 replaced by 0 and components above 1 replaced by 1; and the
\* interval is recorded all the same.
C20_RangeClamp ==
    /\ \A t \in Recorded, k \in Slots :
          RGe(output_actions[t][k], R0) /\ RLe(output_actions[t][k], R1)
    /\ Len(output_actions) = Len(calls)
    /\ i > 0 =>
          /\ \A k \in Slots :
                loc.clipped[k] =
                    IF RLt(calls[i].action[k], R0) THEN R0
                    ELSE IF RGt(calls[i].action[k], R1) THEN R1
                    ELSE calls[i].action[k]
          /\ loc.normalised = Normalise(loc.clipped)

\* C20 witness: a vector with a component below 0 and a component above 1 was
\* returned, clamped, and its interval accepted and recorded.
C20_Witness ==
    /\ i > 0
    /\ \E k \in Slots : RLt(calls[i].action[k], R0)
    /\ \E k \in Slots : RGt(calls[i].action[k], R1)
    /\ ~loc.rejected
    /\ output_actions[i] # Zero8

\* ------------------------------------------------------------------------
\* Properties of the strategies
\* ------------------------------------------------------------------------
Calls == 1..Len(results)

\* C11: every call of action whose forecast window holds a NaN returns, and
\* returns the class's zero action, whatever was called before.
C11_NaNForecastZeroAction ==
    \A t \in Calls :
        results[t].forecast_nan
        => /\ results[t].outcome = "returned"
           /\ results[t].value = ZeroAction(strategy)

\* C12: every vector returned by QuantilePicker, DPOptimised or
\* ClarabelOptimisedFCAS has all components in [0,1]; in particular no
\* decision is expressed as a negative value in the charge slot.
C12_ActionInUnitRange ==
    \A t \in Calls :
        (strategy # "ClarabelOptimised" /\ results[t].outcome = "returned")
        => \A k \in DOMAIN results[t].value :
              /\ RGe(results[t].value[k], R0)
              /\ RLe(results[t].value[k], R1)

SameArguments(a, b) ==
    /\ results[a].forecast = results[b].forecast
    /\ results[a].c_soc = results[b].c_soc
    /\ results[a].c_max = results[b].c_max
    /\ results[a].eta_chg = results[b].eta_chg
    /\ results[a].eta_dchg = results[b].eta_dchg

\* C13: the outcome of a call depends on its arguments alone: two calls with
\* the same arguments, made after different histories of calls, return the
\* same action.
C13_StatelessAcrossCalls ==
    \A a, b \in Calls :
        SameArguments(a, b)
        => /\ results[a].outcome = results[b].outcome
           /\ results[a].error = results[b].error
           /\ results[a].value = results[b].value

\* the trivial path of C18: forecast [10, 1000], no efficiency loss
TrivialPath(t) ==
    /\ strategy = "DPOptimised"
    /\ results[t].forecast = <<Price(10), Price(1000)>>
    /\ results[t].eta_chg = R1
    /\ results[t].eta_dchg = R1

\* the state of charge is at least one full-power discharge step above empty
CanDischarge(t) ==
    i_init(results[t].c_soc, results[t].c_max)
        - di(results[t].eta_dchg, battery.p_max, results[t].c_max) >= 0

\* there is room for one full-power charge step
CanCharge(t) ==
    i_init(results[t].c_soc, results[t].c_max)
        + di(results[t].eta_chg, battery.p_max, results[t].c_max) < n_soc

C17_SolvedAllocationFeasible ==
    \A t \in Calls :
        (strategy = "ClarabelOptimisedFCAS" /\ results[t].status \in SolvedStatuses
            /\ results[t].outcome = "returned")
        => LET v == results[t].value
           IN  /\ RLe(RAdd(v[2], RAdd(RAdd(v[3], v[4]), v[5])), R1)
               /\ RLe(RAdd(v[1], RAdd(RAdd(v[6], v[7]), v[8])), R1)
               /\ Normalise(Clip(v)) = v

\* C21: in every interval a raise commitment is zeroed exactly when its full
\* response energy exceeds the state of charge at the start of the interval,
\* a lower commitment exactly when it exceeds the capacity less that state of
\* charge; every other slot is left as the normalisation produced it, and
\* every non-zero FCAS commitment recorded fits the energy or room it had.
C21_HeadroomFeasibility ==
    i > 0 =>
        /\ \A k \in RAISE :
              loc.action[k] =
                 IF RGt(response_energy(loc.normalised, battery.p_max, k), loc.soc_before)
                 THEN R0 ELSE loc.normalised[k]
        /\ \A k \in LOWER :
              loc.action[k] =
                 IF RGt(response_energy(loc.normalised, battery.p_max, k),
                        RSub(loc.max_before, loc.soc_before))
                 THEN R0 ELSE loc.normalised[k]
        /\ \A k \in Slots \ FCAS : loc.action[k] = loc.normalised[k]
        /\ \A k \in RAISE :
              Positive(output_actions[i][k]) =>
                 RLe(response_energy(output_actions[i], battery.p_max, k), loc.soc_before)
        /\ \A k \in LOWER :
              Positive(output_actions[i][k]) =>
                 RLe(response_energy(output_actions[i], battery.p_max, k),
                     RSub(loc.max_before, loc.soc_before))

\* C21 witness: a lower commitment that the capacity alone could hold was
\* zeroed for lack of room, and in the same run a raise commitment passed.
C21_Witness ==
    /\ i > 0
    /\ \E k \in LOWER :
          /\ Positive(loc.normalised[k])
          /\ loc.action[k] = R0
          /\ RLe(response_energy(loc.normalised, battery.p_max, k), loc.max_before)
    /\ Positive(loc.soc_before)

\* C22: the capacity changes in an interval only if the recorded charge or
\* discharge fraction of that interval is non-zero; an interval whose two
\* energy fractions are zero leaves the capacity as it was.
C22_DegradationOnEnergyOnly ==
    i > 0 =>
        ((output_actions[i][1] = R0 /\ output_actions[i][2] = R0)
            => output_c_max[i] = loc.max_before)

\* the energy slot k moves per the stated rule: fraction x p_max x efficiency
\* x event x duration, into the battery for the charge side, out of it for
\* the discharge side
SlotEnergy(action, ev, k) ==
    LET eff == IF k \in CHG THEN battery.eta_chg ELSE battery.eta_dchg
        sgn == IF k \in CHG THEN R1 ELSE RNeg(R1)
    IN  RMul(sgn, RMul(RMul(RMul(action[k], battery.p_max), eff),
                       RMul(<<ev[k], 1>>, DURATIONS[k])))

\* C23: in every accepted interval the recorded state of charge is the one
\* before the interval plus the sum over the 8 slots of the slot energies of
\* the recorded action; the two energy slots are called in every interval,
\* and an FCAS slot that is not called moves no energy.
C23_SocDelta ==
    i > 0 =>
        /\ loc.events[1] = 1 /\ loc.events[2] = 1
        /\ \A k \in FCAS : loc.events[k] = 0 => loc.p_actual[k] = R0
        /\ ~loc.rejected =>
              output_c_soc[i] =
                 RAdd(loc.soc_before,
                      RSum([k \in Slots |-> SlotEnergy(output_actions[i], loc.events, k)]))

\* C23 witness: an accepted interval that moved the state of charge while a
\* non-zero FCAS commitment was not called.
C23_Witness ==
    /\ i > 0
    /\ ~loc.rejected
    /\ output_c_soc[i] # loc.soc_before
    /\ \E k \in FCAS : Positive(output_actions[i][k]) /\ loc.events[k] = 0

\* C24: an interval in which no FCAS commitment survives the headroom check
\* takes nothing from the random generator: the generator is in the same
\* state after the interval as before it.
C24_NoDrawWithoutCommitment ==
    [][(i' = i + 1 /\ \A k \in FCAS : loc'.action[k] = R0) => np_state' = np_state]_vars

\* data.realised[idx - 1, :] of a given price series
LastPriceOf(series, idx) == IF idx = 0 THEN series[Len(series)] ELSE series[idx]

\* C25: the last_price of the call in interval t is the realised row of the
\* interval before it when there is one, and it is the same for every price
\* series that agrees with the run's series on the intervals before t: it
\* carries nothing of the current or a later interval.
C25_LastPriceFromThePast ==
    \A t \in 1..Len(calls) :
        /\ t > 1 => calls[t].last_price = realised[t - 1]
        /\ \A other \in PriceSeries(n) :
              (\A s \in 1..(t - 1) : other[s] = realised[s])
              => LastPriceOf(other, t - 1) = calls[t].last_price

\* C30: on one instance of a convex strategy every call with equal charge and
\* discharge efficiencies and a NaN-free forecast raises the configuration
\* error without running the solver, whatever calls came before it.
C30_ConfigCheckEveryCall ==
    \A t \in 1..Len(results) :
        (results[t].eta_chg = results[t].eta_dchg /\ ~results[t].forecast_nan)
        => /\ results[t].outcome = "raised"
           /\ results[t].error = "ValueError"
           /\ results[t].status = "not_run"

\* C29: in the scalar loop every recorded state of charge lies between 0 and
\* the capacity recorded with it, an action above 0 never lowers the state
\* of charge and an action below 0 never raises it.
C29_ScalarLoopBounds ==
    /\ \A t \in Recorded :
          /\ RGe(output_c_soc[t], R0)
          /\ RLe(output_c_soc[t], output_c_max[t])
    /\ i > 0 =>
          /\ RGt(loc.action, R0) => RGe(output_c_soc[i], loc.soc_before)
          /\ RLt(loc.action, R0) => RLe(output_c_soc[i], loc.soc_before)

\* ------------------------------------------------------------------------
\* Properties of the dynamic programme
\* ------------------------------------------------------------------------
Moves == {"idle", "chg", "dchg"}

\* the grid index a move leads to
MoveTo(mv, idx) ==
    IF mv = "chg" THEN idx + dp.di_chg
    ELSE IF mv = "dchg" THEN idx - dp.di_dchg
    ELSE idx

\* the cost of a move at step t (0-based)
MoveCost(mv, t) ==
    IF mv = "chg"
    THEN RMul(RMul(RAdd(dp.forecast_arr[t + 1], dp.gamma_val), dp.p_max_val), dt)
    ELSE IF mv = "dchg"
    THEN RMul(RMul(RAdd(RNeg(dp.forecast_arr[t + 1]), dp.gamma_val), dp.p_max_val), dt)
    ELSE R0

InGrid(idx) == idx \in 0..(n_soc - 1)

\* the summed cost of the moves k.. of a plan begun at step t in cell idx,
\* and whether every cell on the way is inside the grid
RECURSIVE PlanCost(_, _, _, _)
PlanCost(plan, k, t, idx) ==
    IF k > Len(plan) THEN [ok |-> TRUE, cost |-> R0]
    ELSE CHOOSE r \in {
            IF InGrid(MoveTo(plan[k], idx)) /\ rest.ok
            THEN [ok |-> TRUE, cost |-> RAdd(MoveCost(plan[k], t), rest.cost)]
            ELSE [ok |-> FALSE, cost |-> R0]
            : rest \in {PlanCost(plan, k + 1, t + 1, MoveTo(plan[k], idx))} } : TRUE

\* the least cost over all plans from step t to the end of the horizon
MinCost(t, idx) ==
    LET costs == { r.cost : r \in { q \in { PlanCost(plan, 1, t, idx) :
                        plan \in [1..(Len(dp.forecast_arr) - t) -> Moves] } : q.ok } }
    IN  CHOOSE c \in costs : \A d \in costs : RLe(c, d)

\* C26: every value _foo has written to the memo table or returned for
\* (t, i) is the least summed step cost over all sequences of idle, charge
\* and discharge steps from t to the end of the horizon that stay inside the
\* grid (0 at the end of the horizon), and equals what the same recursion
\* yields without a memo table.
C26_MemoisedMinimum ==
    /\ \A key \in DOMAIN cache : cache[key] = MinCost(key[1], key[2])
    /\ ret # NoReturn =>
          /\ ret.value = MinCost(ret.t, ret.i)
          /\ ret.value = foo(ret.t, ret.i, dp.di_chg, dp.di_dchg, dp.forecast_arr,
                             dp.gamma_val, dp.p_max_val)

\* C26 witness: a call two steps before the end of the horizon or earlier
\* took a non-zero value from the memo table.
C26_Witness ==
    /\ ret.memo
    /\ ret.value # R0
    /\ Len(dp.forecast_arr) >= 3

\* the move the returned vector stands for
Chosen ==
    IF dp_action[1] = R1 THEN "chg"
    ELSE IF dp_action[1] = RNeg(R1) THEN "dchg"
    ELSE "idle"

\* one-step cost of a first move plus the least cost of the rest
FirstValue(mv) == RAdd(MoveCost(mv, 0), MinCost(1, MoveTo(mv, dp.i_init)))

\* C27: the move solve_battery_dp returns stays inside the grid and its
\* one-step cost plus the value of the rest is the least among the moves that
\* stay inside the grid; idle is returned exactly when no such charge or
\* discharge is strictly cheaper than idling.
C27_FirstActionOptimal ==
    dp_action # <<>> =>
        LET inrange == { mv \in Moves : InGrid(MoveTo(mv, dp.i_init)) }
        IN  /\ Chosen \in inrange
            /\ \A mv \in inrange : RLe(FirstValue(Chosen), FirstValue(mv))
            /\ (Chosen = "idle") <=>
                  (\A mv \in inrange : ~RLt(FirstValue(mv), FirstValue("idle")))

\* C27 witness: over a horizon of two steps or more, discharge was returned
\* although a charge was also inside the grid.
C27_Witness ==
    /\ dp_action = Action7(-1)
    /\ Len(dp.forecast_arr) >= 2
    /\ InGrid(dp.i_init + dp.di_chg)

\* C28: every grid index of a frame, and every index the memo table has been
\* read or written with, lies in 0..n_soc - 1.
C28_IndicesInGrid ==
    /\ \A k \in 1..Len(stack) : InGrid(stack[k].i)
    /\ \A key \in touched : InGrid(key[2])
    /\ \A key \in DOMAIN cache : InGrid(key[2])

\* C28 witness: the state of charge passed in is above the capacity, the
\* search started from the top cell and left the charge branch out, and a
\* discharge from a low cell was left out as well.
C28_Witness ==
    /\ RGt(dp.c_init, dp.c_max_val)
    /\ \E key \in touched : key[2] = n_soc - 1
    /\ \E key \in touched : key[2] + dp.di_chg >= n_soc
    /\ dp_action # <<>>

====
